---------------------------- MODULE Spec2Model ----------------------------
(***************************************************************************)
(* Model of the Gamepad class (src/unnamed/part_000): configuration        *)
(* detection, definition loading, the HID session and the frame decoder   *)
(* (processJoysticks / processButtons / processStatus).                    *)
(*                                                                         *)
(* Strings the code searches or edits (the controller identifier, file     *)
(* names, paths) are sequences of one-character strings; field names and   *)
(* event names are TLA+ strings joined with \o as the code joins them.     *)
(***************************************************************************)
EXTENDS Integers, Sequences, FiniteSets, TLC

VARIABLES
    type,       \* this._type: the controller identifier
    options,    \* this._options: record with the supplied overrides only
    config,     \* this._config: Null, or the path of the required module
    states,     \* this._states: field name -> stored value
    usb,        \* this._usb: 0 for null, else the id of the last opened handle
    handles,    \* HID handles opened so far, id -> is it still open
    cache,      \* node's require cache: path -> the (mutable) definition object
    devices,    \* what HID.devices() returns
    frames,     \* the frames onControllerFrame has processed, in order
    emitted,    \* emitted[i]: the events onControllerFrame emitted for frames[i]
    lifecycle,  \* "connecting" / "connected" events emitted so far
    calls,      \* fs / HID calls detectControllerConfiguration made in the last connect()
    err,        \* outcome of the last connect()
    connects,   \* number of connect() calls so far
    fresh,      \* a handle was opened and no frame has been processed since
    exited      \* the process "exit" event has fired

vars == <<type, options, config, states, usb, handles, cache, devices,
          frames, emitted, lifecycle, calls, err, connects, fresh, exited>>

----------------------------------------------------------------------------
(* Bounds *)

MaxFrames == 4
MaxConnects == 2

----------------------------------------------------------------------------
(* JavaScript values held in this._states and read from a Buffer *)

Undefined == [t |-> "undefined"]
Num(n) == [t |-> "number", v |-> n]
Bool(b) == [t |-> "boolean", v |-> b]
Str(s) == [t |-> "string", v |-> s]
Obj(x, y) == [t |-> "object", x |-> x, y |-> y]

\* a === b
StrictEq(a, b) == a.t = b.t /\ a = b

\* the truthiness the ! operator tests
Truthy(a) ==
    CASE a.t = "undefined" -> FALSE
      [] a.t = "number" -> a.v # 0
      [] a.t = "boolean" -> a.v
      [] a.t = "string" -> a.v # ""
      [] OTHER -> TRUE

\* data[pin] on a Buffer: the byte, or undefined past the end
ByteAt(data, pin) ==
    IF pin + 1 \in DOMAIN data THEN Num(data[pin + 1]) ELSE Undefined

\* v & 0xFF: undefined converts to 0
Mask(v) == IF v.t = "number" THEN v.v % 256 ELSE 0

\* obj.x / obj.y read through the IStickState cast
PropX(a) == IF a.t = "object" THEN a.x ELSE Undefined
PropY(a) == IF a.t = "object" THEN a.y ELSE Undefined

\* this._states[name]
Get(st, name) == IF name \in DOMAIN st THEN st[name] ELSE Undefined

\* this._states[name] = v
Put(st, name, v) ==
    [k \in DOMAIN st \cup {name} |-> IF k = name THEN v ELSE st[k]]

Event(name, payload) == [name |-> name, payload |-> payload]

----------------------------------------------------------------------------
(* String operations *)

Slash == "/"
DotJson == <<".", "j", "s", "o", "n">>

\* s.indexOf(c) for a one-character c
IndexOf(s, c) ==
    IF \E i \in DOMAIN s : s[i] = c
    THEN (CHOOSE i \in DOMAIN s : s[i] = c /\ \A j \in 1..(i - 1) : s[j] # c) - 1
    ELSE -1

OccursAt(s, pat, i) ==
    /\ i + Len(pat) - 1 <= Len(s)
    /\ \A k \in 1..Len(pat) : s[i + k - 1] = pat[k]

\* s.replace(pat, rep) with a string pattern: the first occurrence only
Replace(s, pat, rep) ==
    IF \E i \in 1..Len(s) : OccursAt(s, pat, i)
    THEN LET i == CHOOSE i \in 1..Len(s) :
                    OccursAt(s, pat, i) /\ \A j \in 1..(i - 1) : ~OccursAt(s, pat, j)
         IN SubSeq(s, 1, i - 1) \o rep \o SubSeq(s, i + Len(pat), Len(s))
    ELSE s

----------------------------------------------------------------------------
(* The controllers directory on disk: one vendor, three definitions *)

Null == <<>>

V == <<"v">>
FileA == <<"a">> \o DotJson
FileB == <<"b">> \o DotJson
FileC == <<"c">> \o DotJson

DefA ==
    [vendorID |-> 1, productID |-> 1,
     joysticks |-> << [name |-> "left", x |-> [pin |-> 0], y |-> [pin |-> 1]],
                      [name |-> "right", x |-> [pin |-> 1], y |-> [pin |-> 0]] >>,
     buttons |-> << [value |-> 1, pin |-> 1, name |-> "fire"],
                    [value |-> 0, pin |-> 1, name |-> "zero"] >>,
     status |-> << [pin |-> 0, name |-> "mode",
                    states |-> << [value |-> 0, state |-> "off"],
                                  [value |-> 0, state |-> "dup"],
                                  [value |-> 255, state |-> "max"] >>],
                   [pin |-> 0, name |-> "aux",
                    states |-> << [value |-> 1, state |-> "one"],
                                  [value |-> 1, state |-> "uno"] >>] >>]

DefB ==
    [vendorID |-> 1, productID |-> 2,
     buttons |-> << [value |-> 255, pin |-> 0, name |-> "fire"] >>]

DefC ==
    [vendorID |-> 2, productID |-> 1,
     status |-> << [pin |-> 1, name |-> "mode",
                    states |-> << [value |-> 1, state |-> "on"] >>] >>]

\* path below controllers/ -> the definition stored in the file
Storage ==
    (V \o <<Slash>> \o FileA :> DefA) @@
    (V \o <<Slash>> \o FileB :> DefB) @@
    (V \o <<Slash>> \o FileC :> DefC)

VendorDirs == {V}

\* fs.existsSync(path.resolve(__dirname, "../controllers/" + p))
ExistsSync(p) == p \in VendorDirs \/ p \in DOMAIN Storage

\* fs.readdirSync(dir): the entries of a vendor directory, in the order returned
ReaddirSync(dir) == IF dir = V THEN <<FileA, FileB, FileC>> ELSE <<>>

\* require(path): the cached module object, loaded from disk on first use
Require(c, p) == IF p \in DOMAIN c THEN c ELSE (p :> Storage[p]) @@ c

----------------------------------------------------------------------------
(* Config resolver *)

\* hasProductId with the test > 0: a leading separator is not seen
hasProductId_Positive(ty) == IndexOf(ty, Slash) > 0

hasProductId(ty) == IndexOf(ty, Slash) > -1

\* MatchesDevice with || for &&: one equal identifier is enough
MatchesDevice_Either(tmpConfig, devs) ==
    \E j \in 1..Len(devs) :
        \/ tmpConfig.vendorID = devs[j].vendorId
        \/ tmpConfig.productID = devs[j].productId

\* the inner loop over devices: does any attached device carry both identifiers
MatchesDevice(tmpConfig, devs) ==
    \E j \in 1..Len(devs) :
        /\ tmpConfig.vendorID = devs[j].vendorId
        /\ tmpConfig.productID = devs[j].productId

\* the loop over files, from files[i] on; c is the require cache so far
RECURSIVE ScanFiles(_, _, _, _, _, _)
ScanFiles(files, i, platformPath, devs, ty, c) ==
    IF i > Len(files)
    THEN [found |-> FALSE, type |-> ty, cache |-> c, required |-> i - 1]
    ELSE LET file == files[i]
             tmpConfigPath == platformPath \o <<Slash>> \o file
             c2 == Require(c, tmpConfigPath)
         IN IF MatchesDevice(c2[tmpConfigPath], devs)
            THEN [found |-> TRUE,
                  type |-> ty \o <<Slash>> \o Replace(file, DotJson, <<>>),
                  cache |-> c2, required |-> i]
            ELSE ScanFiles(files, i + 1, platformPath, devs, ty, c2)

Repeat(n, x) == [k \in 1..n |-> x]

\* detectControllerConfiguration ending in return true: an unmatched vendor
\* is taken as detected
DetectControllerConfiguration_NoFail(ty, devs, c) ==
    IF hasProductId(ty)
    THEN [result |-> "true", type |-> ty, cache |-> c, calls |-> <<>>]
    ELSE IF ~ExistsSync(ty)
    THEN [result |-> "throw", type |-> ty, cache |-> c, calls |-> <<"existsSync">>]
    ELSE LET r == ScanFiles(ReaddirSync(ty), 1, ty, devs, ty, c)
         IN [result |-> "true",
             type |-> r.type, cache |-> r.cache,
             calls |-> <<"existsSync", "devices", "readdirSync">>
                         \o Repeat(r.required, "require")]

\* detectControllerConfiguration returning false for a missing vendor
\* directory instead of throwing
DetectControllerConfiguration_MissingAsUndetected(ty, devs, c) ==
    IF hasProductId(ty)
    THEN [result |-> "true", type |-> ty, cache |-> c, calls |-> <<>>]
    ELSE IF ~ExistsSync(ty)
    THEN [result |-> "false", type |-> ty, cache |-> c, calls |-> <<"existsSync">>]
    ELSE LET r == ScanFiles(ReaddirSync(ty), 1, ty, devs, ty, c)
         IN [result |-> IF r.found THEN "true" ELSE "false",
             type |-> r.type, cache |-> r.cache,
             calls |-> <<"existsSync", "devices", "readdirSync">>
                         \o Repeat(r.required, "require")]

\* detectControllerConfiguration: result is "true", "false" or "throw"
DetectControllerConfiguration(ty, devs, c) ==
    IF hasProductId(ty)
    THEN [result |-> "true", type |-> ty, cache |-> c, calls |-> <<>>]
    ELSE IF ~ExistsSync(ty)
    THEN [result |-> "throw", type |-> ty, cache |-> c, calls |-> <<"existsSync">>]
    ELSE LET r == ScanFiles(ReaddirSync(ty), 1, ty, devs, ty, c)
         IN [result |-> IF r.found THEN "true" ELSE "false",
             type |-> r.type, cache |-> r.cache,
             calls |-> <<"existsSync", "devices", "readdirSync">>
                         \o Repeat(r.required, "require")]

----------------------------------------------------------------------------
(* Definition loader *)

\* if (this._options.vendorID): supplied and truthy
Supplied(opts, key) == key \in DOMAIN opts /\ opts[key] # 0

\* loadConfiguration without the existsSync test: require itself throws
\* for a missing file
LoadConfiguration_NoCheck(ty, opts, c) ==
    LET configPath == ty \o DotJson
    IN IF ~ExistsSync(configPath)
       THEN [threw |-> TRUE, error |-> "modulenotfound", config |-> Null, cache |-> c]
       ELSE LET c2 == Require(c, configPath)
                d1 == IF Supplied(opts, "vendorID")
                      THEN [c2[configPath] EXCEPT !.vendorID = opts.vendorID]
                      ELSE c2[configPath]
                d2 == IF Supplied(opts, "productID")
                      THEN [d1 EXCEPT !.productID = opts.productID]
                      ELSE d1
            IN [threw |-> FALSE, error |-> "none", config |-> configPath,
                cache |-> [c2 EXCEPT ![configPath] = d2]]

\* loadConfiguration: the definition object is the cached module, edited in place
LoadConfiguration(ty, opts, c) ==
    LET configPath == ty \o DotJson
    IN IF ~ExistsSync(configPath)
       THEN [threw |-> TRUE, error |-> "nodefinition", config |-> Null, cache |-> c]
       ELSE LET c2 == Require(c, configPath)
                d1 == IF Supplied(opts, "vendorID")
                      THEN [c2[configPath] EXCEPT !.vendorID = opts.vendorID]
                      ELSE c2[configPath]
                d2 == IF Supplied(opts, "productID")
                      THEN [d1 EXCEPT !.productID = opts.productID]
                      ELSE d1
            IN [threw |-> FALSE, error |-> "none", config |-> configPath,
                cache |-> [c2 EXCEPT ![configPath] = d2]]

----------------------------------------------------------------------------
(* Frame decoder.  A pass threads acc = [st: this._states, ev: events        *)
(* emitted so far in this frame] through the fields in list order.           *)

\* StickStep with the first observation reported as a move
StickStep_EmitFirst(acc, stick, data) ==
    LET x == ByteAt(data, stick.x.pin)
        y == ByteAt(data, stick.y.pin)
        currentState == Get(acc.st, stick.name)
    IN IF ~StrictEq(PropX(currentState), x) \/ ~StrictEq(PropY(currentState), y)
       THEN [st |-> Put(acc.st, stick.name, Obj(x, y)),
             ev |-> Append(acc.ev, Event(stick.name \o ":move", Obj(x, y)))]
       ELSE acc

\* StickStep comparing the x axis only
StickStep_XOnly(acc, stick, data) ==
    LET x == ByteAt(data, stick.x.pin)
        y == ByteAt(data, stick.y.pin)
        currentState == Get(acc.st, stick.name)
    IN IF ~Truthy(currentState)
       THEN [st |-> Put(acc.st, stick.name, Obj(x, y)), ev |-> acc.ev]
       ELSE IF ~StrictEq(PropX(currentState), x)
       THEN [st |-> Put(acc.st, stick.name, Obj(x, y)),
             ev |-> Append(acc.ev, Event(stick.name \o ":move", Obj(x, y)))]
       ELSE acc

\* StickStep without the assignment of the new pair: the baseline stays
StickStep_NoStore(acc, stick, data) ==
    LET x == ByteAt(data, stick.x.pin)
        y == ByteAt(data, stick.y.pin)
        currentState == Get(acc.st, stick.name)
    IN IF ~Truthy(currentState)
       THEN [st |-> Put(acc.st, stick.name, Obj(x, y)), ev |-> acc.ev]
       ELSE IF ~StrictEq(PropX(currentState), x) \/ ~StrictEq(PropY(currentState), y)
       THEN [st |-> acc.st,
             ev |-> Append(acc.ev, Event(stick.name \o ":move", Obj(x, y)))]
       ELSE acc

\* the forEach body of processJoysticks
StickStep(acc, stick, data) ==
    LET x == ByteAt(data, stick.x.pin)
        y == ByteAt(data, stick.y.pin)
        currentState == Get(acc.st, stick.name)
    IN IF ~Truthy(currentState)
       THEN [st |-> Put(acc.st, stick.name, Obj(x, y)), ev |-> acc.ev]
       ELSE IF ~StrictEq(PropX(currentState), x) \/ ~StrictEq(PropY(currentState), y)
       THEN [st |-> Put(acc.st, stick.name, Obj(x, y)),
             ev |-> Append(acc.ev, Event(stick.name \o ":move", Obj(x, y)))]
       ELSE acc

RECURSIVE ForEachStick(_, _, _)
ForEachStick(acc, sticks, data) ==
    IF sticks = <<>> THEN acc
    ELSE ForEachStick(StickStep(acc, Head(sticks), data), Tail(sticks), data)

processJoysticks(acc, cfg, data) ==
    IF "joysticks" \notin DOMAIN cfg THEN acc
    ELSE ForEachStick(acc, cfg.joysticks, data)

\* (data[button.pin] & 0xFF) === button.value
IsPressed(button, data) == Mask(ByteAt(data, button.pin)) = button.value

\* ButtonStep with the first observation stored silently, as sticks do
ButtonStep_SilentFirst(acc, button, data) ==
    LET isPressed == IsPressed(button, data)
        currentState == Get(acc.st, button.name)
    IN IF currentState.t = "undefined"
       THEN [st |-> Put(acc.st, button.name, Bool(isPressed)), ev |-> acc.ev]
       ELSE [st |-> Put(acc.st, button.name, Bool(isPressed)),
             ev |-> IF isPressed /\ ~StrictEq(currentState, Bool(isPressed))
                    THEN Append(acc.ev, Event(button.name \o ":press", Undefined))
                    ELSE IF ~isPressed /\ ~StrictEq(currentState, Bool(isPressed))
                    THEN Append(acc.ev, Event(button.name \o ":release", Undefined))
                    ELSE acc.ev]

\* ButtonStep without the final store: the entry keeps its first value
ButtonStep_NoStore(acc, button, data) ==
    LET isPressed == IsPressed(button, data)
        currentState == Get(acc.st, button.name)
    IN IF currentState.t = "undefined"
       THEN [st |-> Put(acc.st, button.name, Bool(isPressed)),
             ev |-> IF isPressed
                    THEN Append(acc.ev, Event(button.name \o ":press", Undefined))
                    ELSE acc.ev]
       ELSE [st |-> acc.st,
             ev |-> IF isPressed /\ ~StrictEq(currentState, Bool(isPressed))
                    THEN Append(acc.ev, Event(button.name \o ":press", Undefined))
                    ELSE IF ~isPressed /\ ~StrictEq(currentState, Bool(isPressed))
                    THEN Append(acc.ev, Event(button.name \o ":release", Undefined))
                    ELSE acc.ev]

\* the forEach body of processButtons
ButtonStep(acc, button, data) ==
    LET isPressed == IsPressed(button, data)
        currentState == Get(acc.st, button.name)
    IN IF currentState.t = "undefined"
       THEN [st |-> Put(acc.st, button.name, Bool(isPressed)),
             ev |-> IF isPressed
                    THEN Append(acc.ev, Event(button.name \o ":press", Undefined))
                    ELSE acc.ev]
       ELSE [st |-> Put(acc.st, button.name, Bool(isPressed)),
             ev |-> IF isPressed /\ ~StrictEq(currentState, Bool(isPressed))
                    THEN Append(acc.ev, Event(button.name \o ":press", Undefined))
                    ELSE IF ~isPressed /\ ~StrictEq(currentState, Bool(isPressed))
                    THEN Append(acc.ev, Event(button.name \o ":release", Undefined))
                    ELSE acc.ev]

RECURSIVE ForEachButton(_, _, _)
ForEachButton(acc, buttons, data) ==
    IF buttons = <<>> THEN acc
    ELSE ForEachButton(ButtonStep(acc, Head(buttons), data), Tail(buttons), data)

processButtons(acc, cfg, data) ==
    IF "buttons" \notin DOMAIN cfg THEN acc
    ELSE ForEachButton(acc, cfg.buttons, data)

\* ResolveState without the break: the last matching entry wins
ResolveState_Last(sts, state) ==
    IF \E i \in 1..Len(sts) : sts[i].value = state
    THEN LET i == CHOOSE i \in 1..Len(sts) :
                    sts[i].value = state /\ \A j \in (i + 1)..Len(sts) : sts[j].value # state
         IN Str(sts[i].state)
    ELSE Undefined

\* the scan of status.states: the first entry whose value is the byte, else
\* updatedState stays undefined
ResolveState(sts, state) ==
    IF \E i \in 1..Len(sts) : sts[i].value = state
    THEN LET i == CHOOSE i \in 1..Len(sts) :
                    sts[i].value = state /\ \A j \in 1..(i - 1) : sts[j].value # state
         IN Str(sts[i].state)
    ELSE Undefined

\* StatusStep with the first observation stored silently, as sticks do
StatusStep_SilentFirst(acc, status, data) ==
    LET state == Mask(ByteAt(data, status.pin))
        updatedState == ResolveState(status.states, state)
        currentState == Get(acc.st, status.name)
    IN [st |-> Put(acc.st, status.name, updatedState),
        ev |-> IF status.name \in DOMAIN acc.st /\ ~StrictEq(currentState, updatedState)
               THEN Append(acc.ev, Event(status.name \o ":change", updatedState))
               ELSE acc.ev]

\* StatusStep reporting only resolved labels: if (updatedState && ...)
StatusStep_NoUnsetEvent(acc, status, data) ==
    LET state == Mask(ByteAt(data, status.pin))
        updatedState == ResolveState(status.states, state)
        currentState == Get(acc.st, status.name)
    IN [st |-> Put(acc.st, status.name, updatedState),
        ev |-> IF Truthy(updatedState) /\ ~StrictEq(currentState, updatedState)
               THEN Append(acc.ev, Event(status.name \o ":change", updatedState))
               ELSE acc.ev]

\* StatusStep storing only resolved labels: an unmatched byte keeps the old one
StatusStep_KeepStale(acc, status, data) ==
    LET state == Mask(ByteAt(data, status.pin))
        updatedState == ResolveState(status.states, state)
        currentState == Get(acc.st, status.name)
    IN [st |-> IF Truthy(updatedState)
               THEN Put(acc.st, status.name, updatedState)
               ELSE acc.st,
        ev |-> IF ~StrictEq(currentState, updatedState)
               THEN Append(acc.ev, Event(status.name \o ":change", updatedState))
               ELSE acc.ev]

\* the forEach body of processStatus
StatusStep(acc, status, data) ==
    LET state == Mask(ByteAt(data, status.pin))
        updatedState == ResolveState(status.states, state)
        currentState == Get(acc.st, status.name)
    IN [st |-> Put(acc.st, status.name, updatedState),
        ev |-> IF ~StrictEq(currentState, updatedState)
               THEN Append(acc.ev, Event(status.name \o ":change", updatedState))
               ELSE acc.ev]

RECURSIVE ForEachStatus(_, _, _)
ForEachStatus(acc, statuses, data) ==
    IF statuses = <<>> THEN acc
    ELSE ForEachStatus(StatusStep(acc, Head(statuses), data), Tail(statuses), data)

\* processStatus starting from a fresh mapping: this._states = {} before the pass
processStatus_Reset(acc, cfg, data) ==
    IF "status" \notin DOMAIN cfg THEN acc
    ELSE ForEachStatus([st |-> <<>>, ev |-> acc.ev], cfg.status, data)

processStatus(acc, cfg, data) ==
    IF "status" \notin DOMAIN cfg THEN acc
    ELSE ForEachStatus(acc, cfg.status, data)

\* onControllerFrame with the button pass before the stick pass
Decode_ButtonsFirst(st, cfg, data) ==
    processStatus(processJoysticks(processButtons([st |-> st, ev |-> <<>>], cfg, data),
                                   cfg, data),
                  cfg, data)

\* onControllerFrame: the three passes in order
Decode(st, cfg, data) ==
    processStatus(processButtons(processJoysticks([st |-> st, ev |-> <<>>], cfg, data),
                                 cfg, data),
                  cfg, data)

----------------------------------------------------------------------------
(* Inputs *)

Frames == {<<0, 0>>, <<0, 1>>, <<255, 1>>, <<1>>}

Dev(v, p) == [vendorId |-> v, productId |-> p]
AttachedDevices == {Dev(1, 1), Dev(1, 2), Dev(2, 1), Dev(2, 2)}
DeviceLists ==
    {<<>>} \cup {<<d>> : d \in AttachedDevices}
           \cup {<<d, e>> : d, e \in AttachedDevices}

\* identifiers passed to the constructor
QualifiedTypes == {V \o <<Slash, "a">>, V \o <<Slash, "b">>}
Types ==
    QualifiedTypes \cup
    {V, <<"w">>, V \o <<Slash, "z">>, <<"w", Slash, "a">>, <<Slash, "a">>}

OverrideValues == {0, 2}
OptionSets ==
    {<<>>}
    \cup {[vendorID |-> v] : v \in OverrideValues}
    \cup {[productID |-> q] : q \in OverrideValues}
    \cup {[vendorID |-> v, productID |-> q] : v \in OverrideValues, q \in OverrideValues}

----------------------------------------------------------------------------
(* The Gamepad object *)

\* constructor(type, options), over the given inputs
Construct(tys, optss, devss) ==
    /\ type \in tys
    /\ options \in optss
    /\ devices \in devss
    /\ usb = 0
    /\ config = Null
    /\ states = <<>>
    /\ handles = <<>>
    /\ cache = <<>>
    /\ frames = <<>>
    /\ emitted = <<>>
    /\ lifecycle = <<>>
    /\ calls = <<>>
    /\ err = "none"
    /\ connects = 0
    /\ fresh = FALSE
    /\ exited = FALSE

\* new HID.HID(vendorID, productID) opens the attached device with these
\* identifiers and throws when there is none
CanOpen(cfg, devs) ==
    \E j \in 1..Len(devs) :
        cfg.vendorID = devs[j].vendorId /\ cfg.productID = devs[j].productId

\* connect()
Connect ==
    /\ ~exited
    /\ connects < MaxConnects
    /\ connects' = connects + 1
    /\ LET d == DetectControllerConfiguration(type, devices, cache)
       IN /\ calls' = d.calls
          /\ type' = d.type
          /\ IF d.result # "true"
             THEN /\ err' = IF d.result = "throw" THEN "vendor" ELSE "notdetected"
                  /\ cache' = d.cache
                  /\ UNCHANGED <<config, usb, handles, lifecycle, fresh>>
             ELSE LET l == LoadConfiguration(d.type, options, d.cache)
                  IN IF l.threw
                     THEN /\ err' = l.error
                          /\ lifecycle' = Append(lifecycle, "connecting")
                          /\ cache' = l.cache
                          /\ UNCHANGED <<config, usb, handles, fresh>>
                     ELSE /\ config' = l.config
                          /\ cache' = l.cache
                          /\ IF CanOpen(l.cache[l.config], devices)
                             THEN /\ handles' = Append(handles, TRUE)
                                  /\ usb' = Len(handles) + 1
                                  /\ fresh' = TRUE
                                  /\ lifecycle' = lifecycle \o <<"connecting", "connected">>
                                  /\ err' = "none"
                             ELSE /\ lifecycle' = Append(lifecycle, "connecting")
                                  /\ err' = "open"
                                  /\ UNCHANGED <<usb, handles, fresh>>
    /\ UNCHANGED <<options, states, devices, frames, emitted, exited>>

\* this._usb.close() when a handle was opened
CloseUsb == IF usb # 0 THEN [handles EXCEPT ![usb] = FALSE] ELSE handles

\* disconnect()
Disconnect ==
    /\ ~exited
    /\ handles' = CloseUsb
    /\ UNCHANGED <<type, options, config, states, usb, cache, devices, frames,
                   emitted, lifecycle, calls, err, connects, fresh, exited>>

\* the "exit" listener registered by the constructor
Exit ==
    /\ ~exited
    /\ exited' = TRUE
    /\ handles' = CloseUsb
    /\ UNCHANGED <<type, options, config, states, usb, cache, devices, frames,
                   emitted, lifecycle, calls, err, connects, fresh>>

\* a "data" event of an open handle: onControllerFrame(data)
OnControllerFrame(fs, max) ==
    /\ ~exited
    /\ Len(frames) < max
    /\ \E h \in DOMAIN handles : handles[h]
    /\ \E data \in fs :
          LET r == Decode(states, cache[config], data)
          IN /\ states' = r.st
             /\ emitted' = Append(emitted, r.ev)
             /\ frames' = Append(frames, data)
    /\ fresh' = FALSE
    /\ UNCHANGED <<type, options, config, usb, handles, cache, devices,
                   lifecycle, calls, err, connects, exited>>

\* new Gamepad(type, options) later in the same process: the model follows
\* the newest object; the require cache and the opened handles are the
\* process's and stay
NewGamepad(tys, optss) ==
    /\ ~exited
    /\ type' \in tys
    /\ options' \in optss
    /\ usb' = 0
    /\ config' = Null
    /\ states' = <<>>
    /\ frames' = <<>>
    /\ emitted' = <<>>
    /\ lifecycle' = <<>>
    /\ calls' = <<>>
    /\ err' = "none"
    /\ fresh' = FALSE
    /\ UNCHANGED <<handles, cache, devices, connects, exited>>

----------------------------------------------------------------------------
(* Specifications *)

\* the decoder: a fully qualified identifier, no overrides, both devices attached
Init == Construct(QualifiedTypes, {<<>>}, {<<Dev(1, 1), Dev(1, 2)>>})

Next ==
    \/ Connect
    \/ Disconnect
    \/ OnControllerFrame(Frames, MaxFrames)

Spec == Init /\ [][Next]_vars

\* the resolver and loader: every identifier, override and device list
InitResolve == Construct(Types, OptionSets, DeviceLists)

NextResolve ==
    \/ Connect
    \/ Disconnect
    \/ Exit
    \/ OnControllerFrame({<<0, 1>>}, 1)

SpecResolve == InitResolve /\ [][NextResolve]_vars

\* the loader over several Gamepad objects of one process
InitLoads == Construct(QualifiedTypes, OptionSets, {<<Dev(1, 1), Dev(1, 2)>>})

NextLoads ==
    \/ Connect
    \/ Disconnect
    \/ NewGamepad(QualifiedTypes, OptionSets)

SpecLoads == InitLoads /\ [][NextLoads]_vars

----------------------------------------------------------------------------
(* Vocabulary of the properties *)

PathA == V \o <<Slash>> \o FileA
PathB == V \o <<Slash>> \o FileB

\* the definition the decoder works against
Definition == cache[config]

Sticks == IF "joysticks" \in DOMAIN Definition THEN Definition.joysticks ELSE <<>>
Buttons == IF "buttons" \in DOMAIN Definition THEN Definition.buttons ELSE <<>>
Statuses == IF "status" \in DOMAIN Definition THEN Definition.status ELSE <<>>

\* the events of one frame that carry the given name
Named(evs, n) == SelectSeq(evs, LAMBDA e : e.name = n)

\* the (x, y) pair a frame holds at a stick's pins
PairAt(stick, data) == Obj(ByteAt(data, stick.x.pin), ByteAt(data, stick.y.pin))

\* the pressed state a frame decodes to: the byte masked to 8 bits against
\* the configured value, an absent byte reading as 0
DecodedPressed(button, data) ==
    (IF button.pin + 1 \in DOMAIN data THEN data[button.pin + 1] % 256 ELSE 0)
        = button.value

----------------------------------------------------------------------------
(* C1: the first frame processed after construction emits no "<name>:move"  *)
(* for any configured stick, whatever its bytes; it only stores the         *)
(* frame's (x, y) as the stick's baseline.                                  *)
C1_FirstFrameNoMove ==
    Len(frames) >= 1 =>
        \A i \in 1..Len(Sticks) :
            /\ Named(emitted[1], Sticks[i].name \o ":move") = <<>>
            /\ Len(frames) = 1 =>
                  /\ Sticks[i].name \in DOMAIN states
                  /\ states[Sticks[i].name] = PairAt(Sticks[i], frames[1])

C1_Witness ==
    /\ config = PathA
    /\ frames = << <<255, 1>> >>
    /\ states["left"] = Obj(Num(255), Num(1))
    /\ emitted[1] # <<>>

(* C2: for consecutive frames f1, f2 and every configured stick: equal      *)
(* bytes at the stick's xPin and yPin give no move event for f2; a          *)
(* difference in x or y gives exactly one "<name>:move" whose payload is    *)
(* the (x, y) pair read from f2.                                            *)
C2_MoveIffPairChanged ==
    \A k \in 2..Len(frames) : \A i \in 1..Len(Sticks) :
        LET moves == Named(emitted[k], Sticks[i].name \o ":move")
        IN IF PairAt(Sticks[i], frames[k - 1]) = PairAt(Sticks[i], frames[k])
           THEN moves = <<>>
           ELSE moves = << Event(Sticks[i].name \o ":move", PairAt(Sticks[i], frames[k])) >>

C2_Witness ==
    /\ config = PathA
    /\ frames = << <<0, 0>>, <<0, 0>>, <<0, 1>> >>
    /\ Named(emitted[2], "left:move") = <<>>
    /\ Named(emitted[3], "left:move") = << Event("left:move", Obj(Num(0), Num(1))) >>

(* C3: on the first frame processed, a configured button whose byte equals  *)
(* the configured pressed value emits exactly one "<name>:press" (and no    *)
(* release); a button whose byte differs emits neither press nor release.   *)
C3_FirstFramePress ==
    Len(frames) >= 1 =>
        \A i \in 1..Len(Buttons) :
            LET b == Buttons[i]
                presses == Named(emitted[1], b.name \o ":press")
                releases == Named(emitted[1], b.name \o ":release")
            IN b.pin + 1 \in DOMAIN frames[1] =>
                  /\ releases = <<>>
                  /\ IF frames[1][b.pin + 1] = b.value
                     THEN Len(presses) = 1
                     ELSE presses = <<>>

C3_Witness ==
    /\ config = PathA
    /\ frames = << <<0, 1>> >>
    /\ Len(Named(emitted[1], "fire:press")) = 1
    /\ Named(emitted[1], "zero:press") = <<>>

(* C4: the events emitted for a button are exactly the changes of its       *)
(* decoded pressed state in frame order: press when it becomes pressed (or  *)
(* is pressed on the first frame), release when it becomes not pressed,     *)
(* nothing when the pressed state equals the previous frame's.              *)
C4_ButtonEventsAreChanges ==
    \A k \in 1..Len(frames) : \A i \in 1..Len(Buttons) :
        LET b == Buttons[i]
            now == DecodedPressed(b, frames[k])
            was == IF k = 1 THEN FALSE ELSE DecodedPressed(b, frames[k - 1])
            evs == SelectSeq(emitted[k],
                             LAMBDA e : e.name \in {b.name \o ":press", b.name \o ":release"})
        IN evs = IF now /\ ~was THEN << Event(b.name \o ":press", Undefined) >>
                 ELSE IF ~now /\ was THEN << Event(b.name \o ":release", Undefined) >>
                 ELSE <<>>

\* bytes pressed, pressed, not pressed, pressed: press, none, release, press
C4_Witness ==
    /\ config = PathA
    /\ frames = << <<0, 1>>, <<0, 1>>, <<0, 0>>, <<0, 1>> >>
    /\ Named(emitted[1], "fire:press") # <<>>
    /\ Named(emitted[2], "fire:press") = <<>> /\ Named(emitted[2], "fire:release") = <<>>
    /\ Named(emitted[3], "fire:release") # <<>>
    /\ Named(emitted[4], "fire:press") # <<>>

----------------------------------------------------------------------------
\* the byte a status reads from a frame, masked to 8 bits
StatusByte(status, data) ==
    IF status.pin + 1 \in DOMAIN data THEN data[status.pin + 1] % 256 ELSE 0

\* the indices of the entries of a states list that carry the value
Matching(status, byte) == {j \in 1..Len(status.states) : status.states[j].value = byte}

Min(S) == CHOOSE m \in S : \A n \in S : m <= n

(* C5 as stated: the very first frame processed emits a "<name>:change"     *)
(* for every configured status, whatever the byte at its pin.               *)
C5_FirstFrameAlwaysChange ==
    Len(frames) >= 1 =>
        \A i \in 1..Len(Statuses) :
            Named(emitted[1], Statuses[i].name \o ":change") # <<>>

(* C5 amended: on the very first frame processed a configured status emits  *)
(* exactly one "<name>:change", carrying the resolved label, when the byte  *)
(* at its pin equals the value of some entry of its states list, and emits  *)
(* no change event when no entry matches.                                   *)
C5_FirstFrameChangeIffMatch ==
    Len(frames) >= 1 =>
        \A i \in 1..Len(Statuses) :
            LET s == Statuses[i]
                m == Matching(s, StatusByte(s, frames[1]))
                changes == Named(emitted[1], s.name \o ":change")
            IN IF m = {}
               THEN changes = <<>>
               ELSE changes = << Event(s.name \o ":change", Str(s.states[Min(m)].state)) >>

\* first frame <<1>>: "mode" matches no entry and is silent, "aux" reports "one"
C5_Witness ==
    /\ config = PathA
    /\ frames = << <<1>> >>
    /\ Named(emitted[1], "mode:change") = <<>>
    /\ Named(emitted[1], "aux:change") = << Event("aux:change", Str("one")) >>

(* C6: when several entries of a status's states list carry the same value, *)
(* a frame byte equal to that value resolves to the label of the entry that *)
(* comes first; the label of a later entry with that value is never stored  *)
(* or emitted.                                                              *)
ShadowedLabels(status) ==
    {status.states[k].state : k \in {k \in 1..Len(status.states) :
                                       \E j \in 1..(k - 1) :
                                           status.states[j].value = status.states[k].value}}
    \ {status.states[k].state : k \in {k \in 1..Len(status.states) :
                                         \A j \in 1..(k - 1) :
                                             status.states[j].value # status.states[k].value}}

C6_FirstEntryWins ==
    Len(frames) >= 1 => \A i \in 1..Len(Statuses) :
        LET s == Statuses[i]
        IN /\ \A k \in 1..Len(frames) :
                LET m == Matching(s, StatusByte(s, frames[k]))
                    changes == Named(emitted[k], s.name \o ":change")
                IN /\ \A n \in 1..Len(changes) :
                        /\ changes[n].payload.t = "string" =>
                              changes[n].payload.v \notin ShadowedLabels(s)
                        /\ Cardinality(m) > 1 =>
                              changes[n].payload = Str(s.states[Min(m)].state)
                   /\ (k = Len(frames) /\ Cardinality(m) > 1) =>
                          /\ s.name \in DOMAIN states
                          /\ states[s.name] = Str(s.states[Min(m)].state)
           /\ (s.name \in DOMAIN states /\ states[s.name].t = "string") =>
                  states[s.name].v \notin ShadowedLabels(s)

C6_Witness ==
    /\ config = PathA
    /\ frames = << <<255, 1>>, <<0, 1>> >>
    /\ states["mode"] = Str("off")
    /\ Named(emitted[2], "mode:change") = << Event("mode:change", Str("off")) >>

----------------------------------------------------------------------------
(* C7: with pairwise distinct field names, each sub-pass leaves the entries *)
(* of the other two categories unchanged, and the events emitted for a      *)
(* field and the value stored for it depend only on the sequence of bytes   *)
(* at that field's own pins.                                                *)

SeqRange(q) == {q[i] : i \in DOMAIN q}
StickNames == {Sticks[i].name : i \in 1..Len(Sticks)}
ButtonNames == {Buttons[i].name : i \in 1..Len(Buttons)}
StatusNames == {Statuses[i].name : i \in 1..Len(Statuses)}

NamesDistinct ==
    /\ Cardinality(StickNames \cup ButtonNames \cup StatusNames)
          = Len(Sticks) + Len(Buttons) + Len(Statuses)

\* the two mappings agree on every name of the set
SameEntries(st1, st2, names) ==
    \A n \in names :
        /\ n \in DOMAIN st1 <=> n \in DOMAIN st2
        /\ n \in DOMAIN st1 => st1[n] = st2[n]

\* a frame with every byte outside the given pins set to 0
Project(data, pins) == [k \in DOMAIN data |-> IF k - 1 \in pins THEN data[k] ELSE 0]

\* one field decoded alone, from an empty mapping, over the frames projected
\* to its own pins; kind is "stick", "button" or "status"
SoloStep(kind, field, st, data) ==
    CASE kind = "stick" ->
            StickStep([st |-> st, ev |-> <<>>], field,
                      Project(data, {field.x.pin, field.y.pin}))
      [] kind = "button" ->
            ButtonStep([st |-> st, ev |-> <<>>], field, Project(data, {field.pin}))
      [] OTHER ->
            StatusStep([st |-> st, ev |-> <<>>], field, Project(data, {field.pin}))

RECURSIVE SoloTrace(_, _, _, _)
SoloTrace(kind, field, st, fs) ==
    IF fs = <<>> THEN <<>>
    ELSE LET r == SoloStep(kind, field, st, Head(fs))
         IN <<r>> \o SoloTrace(kind, field, r.st, Tail(fs))

EventNames(kind, field) ==
    CASE kind = "stick" -> {field.name \o ":move"}
      [] kind = "button" -> {field.name \o ":press", field.name \o ":release"}
      [] OTHER -> {field.name \o ":change"}

\* the decoder's events and stored value for the field are those of the
\* field decoded alone
DependsOnOwnPins(kind, field) ==
    LET solo == SoloTrace(kind, field, <<>>, frames)
    IN /\ \A k \in 1..Len(frames) :
            SelectSeq(emitted[k], LAMBDA e : e.name \in EventNames(kind, field))
                = solo[k].ev
       /\ Len(frames) >= 1 =>
            SameEntries(states, solo[Len(frames)].st, {field.name})

C7_CategoriesIndependent ==
    (config # Null /\ NamesDistinct) =>
        /\ \A data \in Frames :
              LET a0 == [st |-> states, ev |-> <<>>]
                  a1 == processJoysticks(a0, Definition, data)
                  a2 == processButtons(a1, Definition, data)
                  a3 == processStatus(a2, Definition, data)
              IN /\ SameEntries(a0.st, a1.st, ButtonNames \cup StatusNames)
                 /\ SameEntries(a1.st, a2.st, StickNames \cup StatusNames)
                 /\ SameEntries(a2.st, a3.st, StickNames \cup ButtonNames)
        /\ \A i \in 1..Len(Sticks) : DependsOnOwnPins("stick", Sticks[i])
        /\ \A i \in 1..Len(Buttons) : DependsOnOwnPins("button", Buttons[i])
        /\ \A i \in 1..Len(Statuses) : DependsOnOwnPins("status", Statuses[i])

C7_Witness ==
    /\ config = PathA
    /\ NamesDistinct
    /\ frames = << <<0, 0>>, <<255, 1>> >>
    /\ {"left", "right", "fire", "zero", "mode", "aux"} \subseteq DOMAIN states
    /\ Len(emitted[2]) = 5

----------------------------------------------------------------------------
(* C8: the per-field state is empty at the start of every device session:   *)
(* when a connect opens a handle after the earlier handles were closed, no  *)
(* field entry is stored until the session's first frame is processed.      *)
C8_SessionStartsEmpty ==
    (fresh /\ \A h \in DOMAIN handles : handles[h] => h = usb) =>
        DOMAIN states = {}

----------------------------------------------------------------------------
(* C9: an identifier that already contains "/" makes detection succeed and  *)
(* leaves the identifier unchanged, whatever devices are attached and       *)
(* whether or not the vendor namespace or a configuration exists; neither   *)
(* the device list nor the configuration directory is consulted.            *)
C9_ExplicitBypassesDetection ==
    [][(connects' = connects + 1 /\ \E i \in DOMAIN type : type[i] = Slash) =>
           /\ type' = type
           /\ calls' = <<>>
           /\ err' \notin {"vendor", "notdetected"}]_vars

C9_Witness ==
    /\ connects = 1
    /\ type = <<"w", Slash, "a">>
    /\ devices = <<>>
    /\ calls = <<>>
    /\ err = "nodefinition"
    /\ lifecycle = <<"connecting">>

(* C10: for a bare vendor identifier whose namespace exists, the resolver   *)
(* narrows the identifier to "<vendor>/<name>", <name> being the first      *)
(* configuration file in enumeration order whose vendorID and productID     *)
(* both equal those of some attached device; a configuration matching on    *)
(* one identifier only is never selected, and the order of the device list  *)
(* does not matter.                                                         *)
FullMatches(dir, devset) ==
    {i \in 1..Len(ReaddirSync(dir)) :
        LET d == Storage[dir \o <<Slash>> \o ReaddirSync(dir)[i]]
        IN [vendorId |-> d.vendorID, productId |-> d.productID] \in devset}

WithoutExtension(file) == SubSeq(file, 1, Len(file) - Len(DotJson))

----------------------------------------------------------------------------
C12_MissingVendorFails ==
    [][(connects' = connects + 1
            /\ (\A i \in DOMAIN type : type[i] # Slash)
            /\ type \notin VendorDirs) =>
           /\ err' = "vendor"
           /\ err' # "notdetected"
           /\ \A i \in DOMAIN calls' : calls'[i] \notin {"devices", "readdirSync", "require"}
           /\ type' = type
           /\ states' = states
           /\ config' = config
           /\ lifecycle' = lifecycle
           /\ emitted' = emitted]_vars

C12_Witness ==
    /\ connects = 1
    /\ type = <<"w">>
    /\ devices = <<Dev(1, 1), Dev(1, 2)>>
    /\ err = "vendor"
    /\ calls = <<"existsSync">>
    /\ lifecycle = <<>>

----------------------------------------------------------------------------
(* C13: the loader applies each override independently and exactly when it  *)
(* is supplied: a supplied vendorID override (any integer, 0 included)      *)
(* becomes the loaded vendorID, an absent one leaves the stored vendorID;   *)
(* likewise for productID; no other field is changed.                       *)
C13_OverrideAppliedWhenSupplied ==
    config # Null =>
        LET loaded == cache[config]
            stored == Storage[config]
        IN /\ loaded.vendorID = IF "vendorID" \in DOMAIN options
                                THEN options.vendorID ELSE stored.vendorID
           /\ loaded.productID = IF "productID" \in DOMAIN options
                                 THEN options.productID ELSE stored.productID
           /\ [loaded EXCEPT !.vendorID = stored.vendorID,
                             !.productID = stored.productID] = stored

(* C14: when the fully qualified identifier names a definition that is not  *)
(* in storage, connect fails with the definition-not-found error: no        *)
(* device handle is opened, "connected" is not emitted and no frame is      *)
(* ever decoded.                                                            *)
NamesMissingDefinition ==
    /\ \E i \in DOMAIN type : type[i] = Slash
    /\ type \o DotJson \notin DOMAIN Storage

C14_MissingDefinitionFails ==
    NamesMissingDefinition =>
        /\ connects >= 1 => err = "nodefinition"
        /\ handles = <<>>
        /\ usb = 0
        /\ \A i \in DOMAIN lifecycle : lifecycle[i] # "connected"
        /\ frames = <<>>
        /\ config = Null

C14_Witness ==
    /\ type = V \o <<Slash, "z">>
    /\ devices = <<Dev(1, 1), Dev(1, 2)>>
    /\ connects = 2
    /\ err = "nodefinition"
    /\ lifecycle = <<"connecting", "connecting">>
    /\ handles = <<>>

(* C15: after any sequence of connect and disconnect calls followed by      *)
(* process exit, every device handle a connect opened has been closed.      *)
C15_AllHandlesClosedAtExit ==
    exited => \A h \in DOMAIN handles : ~handles[h]

----------------------------------------------------------------------------
\* the label a frame resolves to for a status: that of the first entry whose
\* value is the byte, or unset
LabelOf(status, data) ==
    LET m == Matching(status, StatusByte(status, data))
    IN IF m = {} THEN Undefined ELSE Str(status.states[Min(m)].state)

(* C16: for every frame after the first and every configured status, a      *)
(* "<name>:change" is emitted exactly when the label resolved from this     *)
(* frame (unset when no entry matches) differs from the label resolved from *)
(* the previous frame; it carries the new label or the unset marker, and at *)
(* most one is emitted per status and frame.                                *)
C16_ChangeIffLabelDiffers ==
    \A k \in 2..Len(frames) : \A i \in 1..Len(Statuses) :
        LET s == Statuses[i]
            changes == Named(emitted[k], s.name \o ":change")
        IN IF LabelOf(s, frames[k]) # LabelOf(s, frames[k - 1])
           THEN changes = << Event(s.name \o ":change", LabelOf(s, frames[k])) >>
           ELSE changes = <<>>

\* "mode": off, then no entry for byte 1, then off again
C16_Witness ==
    /\ config = PathA
    /\ frames = << <<0, 0>>, <<1>>, <<0, 1>> >>
    /\ Named(emitted[2], "mode:change") = << Event("mode:change", Undefined) >>
    /\ Named(emitted[3], "mode:change") = << Event("mode:change", Str("off")) >>
    /\ Named(emitted[3], "aux:change") = << Event("aux:change", Undefined) >>

(* C17: after every processed frame the stored entry of each configured     *)
(* status is the label of the first states entry whose value is the byte at *)
(* its pin in that frame, or the unset marker when no entry matches; a      *)
(* label stored earlier never survives a frame whose byte matches no entry. *)
C17_StoredStatusIsLastLabel ==
    Len(frames) >= 1 =>
        \A i \in 1..Len(Statuses) :
            /\ Statuses[i].name \in DOMAIN states
            /\ states[Statuses[i].name] = LabelOf(Statuses[i], frames[Len(frames)])

C17_Witness ==
    /\ config = PathA
    /\ frames = << <<0, 0>>, <<1>> >>
    /\ Named(emitted[1], "mode:change") = << Event("mode:change", Str("off")) >>
    /\ states["mode"] = Undefined
    /\ states["aux"] = Str("one")

(* C18: after every processed frame the stored state of each configured     *)
(* button is the boolean (byte at its pin, masked to 8 bits) == configured  *)
(* value of the most recent frame, and the stored state of each configured  *)
(* stick is the whole (x, y) pair read from the most recent frame, whether  *)
(* or not an event was emitted.                                             *)
C18_StoredIsLastFrame ==
    Len(frames) >= 1 =>
        LET last == frames[Len(frames)]
        IN /\ \A i \in 1..Len(Buttons) :
                /\ Buttons[i].name \in DOMAIN states
                /\ states[Buttons[i].name] = Bool(DecodedPressed(Buttons[i], last))
           /\ \A i \in 1..Len(Sticks) :
                /\ Sticks[i].name \in DOMAIN states
                /\ states[Sticks[i].name] = PairAt(Sticks[i], last)
                /\ (\A pin \in {Sticks[i].x.pin, Sticks[i].y.pin} : pin + 1 \in DOMAIN last) =>
                      /\ states[Sticks[i].name].x.t = "number"
                      /\ states[Sticks[i].name].y.t = "number"

\* the third frame repeats the second: no event, the stored values are its values
C18_Witness ==
    /\ config = PathA
    /\ frames = << <<0, 0>>, <<255, 1>>, <<255, 1>> >>
    /\ emitted[3] = <<>>
    /\ states["left"] = Obj(Num(255), Num(1))
    /\ states["fire"] = Bool(TRUE)
    /\ states["zero"] = Bool(FALSE)

----------------------------------------------------------------------------
(* C19: loading a definition with overrides does not change what later      *)
(* loads of the same identifier return: a load that supplies no vendorID    *)
(* (productID) override yields the vendorID (productID) of the stored       *)
(* definition, even after an earlier load that supplied one.                *)
C19_LoadWithoutOverrideIsStored ==
    config # Null =>
        /\ "vendorID" \notin DOMAIN options =>
              cache[config].vendorID = Storage[config].vendorID
        /\ "productID" \notin DOMAIN options =>
              cache[config].productID = Storage[config].productID

----------------------------------------------------------------------------
(* C20: frames are decoded one at a time to completion, and within one      *)
(* frame all stick events are emitted before all button events, which are   *)
(* emitted before all status events, each group in the order the fields are *)
(* listed in the definition.                                                *)

\* the place of an event's field in the definition: sticks, then buttons,
\* then statuses, each in list order
Rank(e) ==
    IF \E i \in 1..Len(Sticks) : e.name = Sticks[i].name \o ":move"
    THEN CHOOSE i \in 1..Len(Sticks) : e.name = Sticks[i].name \o ":move"
    ELSE IF \E i \in 1..Len(Buttons) :
                e.name \in {Buttons[i].name \o ":press", Buttons[i].name \o ":release"}
    THEN Len(Sticks)
           + (CHOOSE i \in 1..Len(Buttons) :
                e.name \in {Buttons[i].name \o ":press", Buttons[i].name \o ":release"})
    ELSE Len(Sticks) + Len(Buttons)
           + (CHOOSE i \in 1..Len(Statuses) : e.name = Statuses[i].name \o ":change")

C20_EventsInDefinitionOrder ==
    /\ Len(emitted) = Len(frames)
    /\ \A k \in 1..Len(frames) :
          \A i, j \in 1..Len(emitted[k]) :
              i < j => Rank(emitted[k][i]) < Rank(emitted[k][j])

\* one frame moving both sticks, changing both buttons and a status
C20_Witness ==
    /\ config = PathA
    /\ frames = << <<0, 0>>, <<255, 1>> >>
    /\ emitted[2] = << Event("left:move", Obj(Num(255), Num(1))),
                       Event("right:move", Obj(Num(1), Num(255))),
                       Event("fire:press", Undefined),
                       Event("zero:release", Undefined),
                       Event("mode:change", Str("max")) >>

============================================================================
